---- MODULE Spec2Model ----
(***************************************************************************)
(* Model of python_to_sql_converter.py: the ordered regex dispatcher       *)
(* python_to_sql, the condition normalizer _replace_series_refs and the    *)
(* alias table FUNC_MAP.  Strings are TLA+ strings; a character is a       *)
(* string of length one.                                                   *)
(***************************************************************************)
EXTENDS Integers, Sequences, FiniteSets, TLC

VARIABLES FUNC_MAP, pc, python_code, table_name, result, shape,
          condition, cond_out

vars == <<FUNC_MAP, pc, python_code, table_name, result, shape,
          condition, cond_out>>

(***************************************************************************)
(* Bounds                                                                  *)
(***************************************************************************)
\* longest filter condition given to python_to_sql, in tokens of CondTokens
MaxCondLen == 2
\* longest condition given to _replace_series_refs, in tokens of NormTokens
MaxNormLen == 3
\* number of concurrent callers of python_to_sql in SpecCalls
NumCallers == 2

(***************************************************************************)
(* Characters and string helpers                                           *)
(***************************************************************************)
At(s, i) == SubSeq(s, i, i)

CharsOf(str) == { SubSeq(str, i, i) : i \in 1..Len(str) }

Lower == "abcdefghijklmnopqrstuvwxyz"

Upper == "ABCDEFGHIJKLMNOPQRSTUVWXYZ"

\* \w of the re module, restricted to ASCII
Word == CharsOf(Lower) \cup CharsOf(Upper) \cup CharsOf("0123456789_")

\* \s of the re module and the characters str.strip() removes (ASCII ones
\* that a TLA+ string can hold)
Space == {" ", "\t", "\n", "\r", "\f"}

\* the character class ['\"]
Quote == {"'", "\""}

StartsWithAt(s, pos, lit) ==
    /\ pos + Len(lit) - 1 <= Len(s)
    /\ SubSeq(s, pos, pos + Len(lit) - 1) = lit

RECURSIVE SpanEnd(_, _, _)
\* first position >= pos whose character is not in set (Len(s)+1 if none):
\* where a greedy X* or X+ stops
SpanEnd(s, pos, set) ==
    IF pos <= Len(s) /\ At(s, pos) \in set
    THEN SpanEnd(s, pos + 1, set)
    ELSE pos

RECURSIVE SpanStart(_, _, _)
\* last position <= pos whose character is not in set (0 if none)
SpanStart(s, pos, set) ==
    IF pos >= 1 /\ At(s, pos) \in set
    THEN SpanStart(s, pos - 1, set)
    ELSE pos

\* str.strip()
strip(s) ==
    LET b == SpanEnd(s, 1, Space)
        e == SpanStart(s, Len(s), Space)
    IN  IF b > e THEN "" ELSE SubSeq(s, b, e)

RECURSIVE IndexIn(_, _, _)
\* position of character c in str at or after i, 0 if absent
IndexIn(str, c, i) ==
    IF i > Len(str) THEN 0
    ELSE IF At(str, i) = c THEN i ELSE IndexIn(str, c, i + 1)

UpperChar(c) ==
    LET i == IndexIn(Lower, c, 1)
    IN  IF i = 0 THEN c ELSE At(Upper, i)

RECURSIVE upper(_)
\* str.upper()
upper(s) ==
    IF s = "" THEN ""
    ELSE UpperChar(At(s, 1)) \o upper(SubSeq(s, 2, Len(s)))

RECURSIVE replace(_, _, _)
\* str.replace(old, new): leftmost non-overlapping occurrences, one pass
replace(s, old, new) ==
    IF s = "" THEN ""
    ELSE IF StartsWithAt(s, 1, old)
         THEN new \o replace(SubSeq(s, Len(old) + 1, Len(s)), old, new)
         ELSE At(s, 1) \o replace(SubSeq(s, 2, Len(s)), old, new)

(***************************************************************************)
(* Regular expressions.  Every pattern of the source is, apart from its    *)
(* one (.+), a concatenation of literals, single characters of a class,    *)
(* greedy X* and capturing (X+) whose following item cannot start with a   *)
(* character of X, so the backtracking matcher can only succeed with the   *)
(* longest span: MatchItems takes it.                                      *)
(***************************************************************************)
Lit(str) == [t |-> "lit", lit |-> str, set |-> {}]

Cls(set) == [t |-> "cls", lit |-> "", set |-> set]

Star(set) == [t |-> "star", lit |-> "", set |-> set]

Group(set) == [t |-> "group", lit |-> "", set |-> set]

\* the capturing alternation (True|False)
Alt(set) == [t |-> "alt", lit |-> "", set |-> set]

NoMatch == [ok |-> FALSE, pos |-> 0, groups |-> <<>>]

RECURSIVE MatchItems(_, _, _, _)
MatchItems(s, pos, items, groups) ==
    IF items = <<>>
    THEN [ok |-> TRUE, pos |-> pos, groups |-> groups]
    ELSE LET it == Head(items)
             rest == Tail(items)
         IN  CASE it.t = "lit" ->
                    IF StartsWithAt(s, pos, it.lit)
                    THEN MatchItems(s, pos + Len(it.lit), rest, groups)
                    ELSE NoMatch
               [] it.t = "cls" ->
                    IF pos <= Len(s) /\ At(s, pos) \in it.set
                    THEN MatchItems(s, pos + 1, rest, groups)
                    ELSE NoMatch
               [] it.t = "star" ->
                    MatchItems(s, SpanEnd(s, pos, it.set), rest, groups)
               [] it.t = "group" ->
                    LET e == SpanEnd(s, pos, it.set)
                    IN  IF e > pos
                        THEN MatchItems(s, e, rest,
                                        Append(groups, SubSeq(s, pos, e - 1)))
                        ELSE NoMatch
               [] it.t = "alt" ->
                    LET hit == { a \in it.set : StartsWithAt(s, pos, a) }
                    IN  IF hit = {} THEN NoMatch
                        ELSE LET a == CHOOSE x \in hit : TRUE
                             IN  MatchItems(s, pos + Len(a), rest,
                                            Append(groups, a))

\* \s*$ : the greedy \s* stops at the first non-space character, and $ holds
\* only at the end of the string or before a final newline, which \s* has
\* consumed: the rest of the string is white space
AtEnd(s, pos) == SpanEnd(s, pos, Space) = Len(s) + 1

\* \s*\[\s*['\"](\w+)['\"]\s*\]\s*\.\s*(\w+)\s*\(\s*\)
AggTail ==
    << Star(Space), Lit("["), Star(Space), Cls(Quote), Group(Word), Cls(Quote),
       Star(Space), Lit("]"), Star(Space), Lit("."), Star(Space), Group(Word),
       Star(Space), Lit("("), Star(Space), Lit(")") >>

\* 1) df\.groupby\(\s*['\"](\w+)['\"]\s*\) followed by AggTail
Match1(code) ==
    MatchItems(code, 1,
               << Lit("df.groupby("), Star(Space), Cls(Quote), Group(Word),
                  Cls(Quote), Star(Space), Lit(")") >> \o AggTail, <<>>)

\* the value of a group that did not take part in the match
None == "None"

\* 2) df\.sort_values\(\s*['\"](\w+)['\"](?:\s*,\s*ascending\s*=\s*(True|False))?\s*\)
\* the optional group is tried first; without it the second group is None
Match2(code) ==
    LET head == << Lit("df.sort_values("), Star(Space), Cls(Quote),
                   Group(Word), Cls(Quote) >>
        opt == << Star(Space), Lit(","), Star(Space), Lit("ascending"),
                  Star(Space), Lit("="), Star(Space), Alt({"True", "False"}) >>
        close == << Star(Space), Lit(")") >>
        with == MatchItems(code, 1, head \o opt \o close, <<>>)
        without == MatchItems(code, 1, head \o close, <<>>)
    IN  IF with.ok THEN with
        ELSE IF without.ok
             THEN [without EXCEPT !.groups = Append(@, None)]
             ELSE NoMatch

\* positions k of a "]" that can end the group of df\[(.+)\]: the group is
\* code[4..k-1], at least one character, none of them a newline
CloseCandidates(code) ==
    IF ~StartsWithAt(code, 1, "df[") THEN {}
    ELSE LET stop == IndexIn(code, "\n", 4)
             last == IF stop = 0 THEN Len(code) ELSE stop - 1
         IN  { k \in 5..last : At(code, k) = "]" }

SetMax(S) == CHOOSE x \in S : \A y \in S : y <= x

SetMin(S) == CHOOSE x \in S : \A y \in S : x <= y

\* 3) df\[(.+)\] followed by AggTail; the greedy (.+) gives up characters
\* from the right, so the match found is the one with the rightmost "]"
Match3_FirstBracket(code) ==
    LET ks == CloseCandidates(code)
        m == IF ks = {} THEN NoMatch
             ELSE MatchItems(code, SetMin(ks) + 1, AggTail, <<>>)
    IN  IF m.ok
        THEN [m EXCEPT !.groups = <<SubSeq(code, 4, SetMin(ks) - 1)>> \o @]
        ELSE NoMatch

Match3(code) ==
    LET ks == { k \in CloseCandidates(code) :
                  MatchItems(code, k + 1, AggTail, <<>>).ok }
    IN  IF ks = {} THEN NoMatch
        ELSE LET k == SetMax(ks)
                 m == MatchItems(code, k + 1, AggTail, <<>>)
             IN  [m EXCEPT !.groups = <<SubSeq(code, 4, k - 1)>> \o @]

\* 4) df\[(.+)\]\s*$
Match4_OpenEnded(code) ==
    IF StartsWithAt(code, 1, "df[") /\ Len(code) >= 4
       /\ IndexIn(code, "\n", 4) = 0
    THEN [ok |-> TRUE, pos |-> Len(code) + 1,
          groups |-> << IF At(code, Len(code)) = "]"
                        THEN SubSeq(code, 4, Len(code) - 1)
                        ELSE SubSeq(code, 4, Len(code)) >>]
    ELSE NoMatch

Match4(code) ==
    LET ks == { k \in CloseCandidates(code) : AtEnd(code, k + 1) }
    IN  IF ks = {} THEN NoMatch
        ELSE LET k == SetMax(ks)
             IN  [ok |-> TRUE, pos |-> Len(code) + 1,
                  groups |-> <<SubSeq(code, 4, k - 1)>>]

\* 5) df\[['\"](\w+)['\"]\]\s*\.\s*(\w+)\s*\(\s*\)
Match5(code) ==
    MatchItems(code, 1,
               << Lit("df["), Cls(Quote), Group(Word), Cls(Quote), Lit("]"),
                  Star(Space), Lit("."), Star(Space), Group(Word), Star(Space),
                  Lit("("), Star(Space), Lit(")") >>, <<>>)

\* 6) df\[['\"](\w+)['\"]\]\s*$
Match6(code) ==
    LET m == MatchItems(code, 1,
                        << Lit("df["), Cls(Quote), Group(Word), Cls(Quote),
                           Lit("]") >>, <<>>)
    IN  IF m.ok /\ AtEnd(code, m.pos) THEN m ELSE NoMatch

(***************************************************************************)
(* The condition normalizer                                                *)
(***************************************************************************)
\* df\[['\"](\w+)['\"]\]
SeriesRef == << Lit("df["), Cls(Quote), Group(Word), Cls(Quote), Lit("]") >>

RECURSIVE SubSeriesRefs(_)
\* re.sub(r"df\[['\"](\w+)['\"]\]", r"\1", condition): one left-to-right
\* pass over non-overlapping matches
SubSeriesRefs(s) ==
    IF s = "" THEN ""
    ELSE LET m == MatchItems(s, 1, SeriesRef, <<>>)
         IN  IF m.ok
             THEN m.groups[1] \o SubSeriesRefs(SubSeq(s, m.pos, Len(s)))
             ELSE At(s, 1) \o SubSeriesRefs(SubSeq(s, 2, Len(s)))

_replace_series_refs_KeepOr(cond) ==
    replace(replace(replace(SubSeriesRefs(cond), "==", "="), "&", "AND"),
            "df.", "")

_replace_series_refs(cond) ==
    replace(replace(replace(replace(SubSeriesRefs(cond), "==", "="),
                            "&", "AND"), "|", "OR"), "df.", "")

(***************************************************************************)
(* The dispatcher                                                          *)
(***************************************************************************)
\* the value FUNC_MAP has when the module is loaded
FuncMapInit ==
    ("mean" :> "AVG") @@ ("sum" :> "SUM") @@ ("count" :> "COUNT") @@
    ("min" :> "MIN") @@ ("max" :> "MAX") @@ ("median" :> "MEDIAN")

\* FUNC_MAP.get(func, func.upper())
FuncSql_NoUpper(map, func) ==
    IF func \in DOMAIN map THEN map[func] ELSE func

FuncSql(map, func) ==
    IF func \in DOMAIN map THEN map[func] ELSE upper(func)

ErrorMessage ==
    "ERROR: Unsupported or unrecognized Python pattern. Please try a simpler expression."

GroupBySql(gcol, sql_func, target_col, table) ==
    "SELECT " \o gcol \o ", " \o sql_func \o "(" \o target_col \o ") FROM "
    \o table \o " GROUP BY " \o gcol \o ";"

SortOrder_DefaultDesc(asc) == IF asc = "True" THEN "ASC" ELSE "DESC"

SortOrder(asc) == IF asc = "False" THEN "DESC" ELSE "ASC"

SortSql(col, order, table) ==
    "SELECT * FROM " \o table \o " ORDER BY " \o col \o " " \o order \o ";"

ChainSql(sql_func, target_col, cond, table) ==
    "SELECT " \o sql_func \o "(" \o target_col \o ") FROM " \o table
    \o " WHERE " \o cond \o ";"

FilterSql_NoSemicolon(cond, table) ==
    "SELECT * FROM " \o table \o " WHERE " \o cond

FilterSql(cond, table) ==
    "SELECT * FROM " \o table \o " WHERE " \o cond \o ";"

AggSql_NoSemicolon(sql_func, col, table) ==
    "SELECT " \o sql_func \o "(" \o col \o ") FROM " \o table

AggSql(sql_func, col, table) ==
    "SELECT " \o sql_func \o "(" \o col \o ") FROM " \o table \o ";"

ColumnSql(col, table) == "SELECT " \o col \o " FROM " \o table \o ";"

\* the number of the first recognizer that matches the trimmed input, 0 if
\* none does
Recognizer(expression) ==
    LET code == strip(expression)
    IN  IF Match1(code).ok THEN 1
        ELSE IF Match2(code).ok THEN 2
        ELSE IF Match3(code).ok THEN 3
        ELSE IF Match4(code).ok THEN 4
        ELSE IF Match5(code).ok THEN 5
        ELSE IF Match6(code).ok THEN 6
        ELSE 0

python_to_sql(expression, table, map) ==
    LET code == strip(expression)
        m1 == Match1(code)
        m2 == Match2(code)
        m3 == Match3(code)
        m4 == Match4(code)
        m5 == Match5(code)
        m6 == Match6(code)
    IN  IF m1.ok
        THEN GroupBySql(m1.groups[1], FuncSql(map, m1.groups[3]),
                        m1.groups[2], table)
        ELSE IF m2.ok
        THEN SortSql(m2.groups[1], SortOrder(m2.groups[2]), table)
        ELSE IF m3.ok
        THEN ChainSql(FuncSql(map, m3.groups[3]), m3.groups[2],
                      _replace_series_refs(m3.groups[1]), table)
        ELSE IF m4.ok
        THEN FilterSql(_replace_series_refs(m4.groups[1]), table)
        ELSE IF m5.ok
        THEN AggSql(FuncSql(map, m5.groups[2]), m5.groups[1], table)
        ELSE IF m6.ok
        THEN ColumnSql(m6.groups[1], table)
        ELSE ErrorMessage

(***************************************************************************)
(* Inputs.  An input is rendered from a shape: the kind of expression and  *)
(* the pieces it is written with.  The shape is kept beside the call so    *)
(* that a property can speak of "an input of the shape df[COND]['C'].f()". *)
(***************************************************************************)
RECURSIVE Strings(_, _)
\* the concatenations of at most n tokens
Strings(tokens, n) ==
    IF n = 0 THEN {""}
    ELSE LET shorter == Strings(tokens, n - 1)
         IN  shorter \cup { s \o t : s \in shorter, t \in tokens }

CondTokens == {"a", "df['age']", "==", "&", "|", "]", "[", ";", "\n"}

ExampleConds ==
    {"(df['age'] > 30) & (df['city'] == 'Chennai')", "df['age'] > 30"}

Conds == (Strings(CondTokens, MaxCondLen) \ {""}) \cup ExampleConds

NormTokens ==
    {"=", "&", "|", "a", "d", "f.", "df.", "df['a']", "df[\"b\"]", "df['",
     "']", " "}

NormConds == Strings(NormTokens, MaxNormLen) \cup ExampleConds

Tables == {"employees", "s.t"}

Cols == {"salary", "c_1"}

\* Python function names with the SQL name expected for each
FuncCases ==
    { <<"mean", "AVG">>, <<"sum", "SUM">>, <<"count", "COUNT">>,
      <<"min", "MIN">>, <<"max", "MAX">>, <<"median", "MEDIAN">>,
      <<"std", "STD">>, <<"Max", "MAX">>, <<"n_1", "N_1">> }

ChainFuncCases == { <<"sum", "SUM">>, <<"std", "STD">>, <<"mean", "AVG">> }

Leads == {"", " "}

Trails == {"", "  ", "]", "["}

Gaps == {"", " "}

AscArgs == {"", "True", "False", "0"}

Garbage ==
    {"", "not_a_pattern(1,2,3)", "df", "df.head()", "SELECT 1;",
     "df.sort_values(salary)", "df.groupby('dept').sum()"}

Blank ==
    [kind |-> "", lead |-> "", trail |-> "", sp |-> "", qo |-> "", qc |-> "",
     gcol |-> "", col |-> "", func |-> "", sqlfunc |-> "", asc |-> "",
     cond |-> "", close |-> "", raw |-> ""]

GroupByShapes ==
    { [Blank EXCEPT !.kind = "groupby", !.lead = l, !.trail = tr, !.sp = g,
                    !.qo = qo, !.qc = qc, !.gcol = "dept", !.col = c,
                    !.func = f[1], !.sqlfunc = f[2]] :
      l \in Leads, tr \in Trails, g \in Gaps, qo \in Quote, qc \in Quote,
      c \in Cols, f \in FuncCases }

SortShapes ==
    { [Blank EXCEPT !.kind = "sort", !.lead = l, !.trail = tr, !.sp = g,
                    !.qo = qo, !.qc = qc, !.col = c, !.asc = a] :
      l \in Leads, tr \in Trails, g \in Gaps, qo \in Quote, qc \in Quote,
      c \in Cols, a \in AscArgs }

ChainShapes ==
    { [Blank EXCEPT !.kind = "chain", !.trail = tr, !.qo = q, !.qc = q,
                    !.col = "salary", !.func = f[1], !.sqlfunc = f[2],
                    !.cond = cd] :
      tr \in {"", "]"}, q \in Quote, f \in ChainFuncCases, cd \in Conds }

FilterShapes ==
    { [Blank EXCEPT !.kind = "filter", !.trail = tr, !.cond = cd,
                    !.close = cl] :
      tr \in {"", "  "}, cd \in Conds \cup {""}, cl \in {"]", ""} }

ColAggShapes ==
    { [Blank EXCEPT !.kind = "colagg", !.lead = l, !.trail = tr, !.sp = g,
                    !.qo = qo, !.qc = qc, !.col = c, !.func = f[1],
                    !.sqlfunc = f[2]] :
      l \in Leads, tr \in Trails, g \in Gaps, qo \in Quote, qc \in Quote,
      c \in Cols, f \in FuncCases }

ColumnShapes ==
    { [Blank EXCEPT !.kind = "column", !.lead = l, !.trail = tr, !.qo = qo,
                    !.qc = qc, !.col = c] :
      l \in Leads, tr \in Trails, qo \in Quote, qc \in Quote,
      c \in Cols \cup {"age"} }

OtherShapes == { [Blank EXCEPT !.kind = "other", !.raw = r] : r \in Garbage }

Shapes ==
    GroupByShapes \cup SortShapes \cup ChainShapes \cup FilterShapes
    \cup ColAggShapes \cup ColumnShapes \cup OtherShapes

\* the text of an input of the given shape
Render(sh) ==
    CASE sh.kind = "groupby" ->
           sh.lead \o "df.groupby(" \o sh.sp \o sh.qo \o sh.gcol \o sh.qc
           \o sh.sp \o ")['" \o sh.col \o "']." \o sh.func \o "()" \o sh.trail
      [] sh.kind = "sort" ->
           sh.lead \o "df.sort_values(" \o sh.sp \o sh.qo \o sh.col \o sh.qc
           \o (IF sh.asc = "" THEN "" ELSE ", ascending=" \o sh.asc)
           \o sh.sp \o ")" \o sh.trail
      [] sh.kind = "chain" ->
           "df[" \o sh.cond \o "][" \o sh.qo \o sh.col \o sh.qc \o "]."
           \o sh.func \o "()" \o sh.trail
      [] sh.kind = "filter" ->
           "df[" \o sh.cond \o sh.close \o sh.trail
      [] sh.kind = "colagg" ->
           sh.lead \o "df[" \o sh.qo \o sh.col \o sh.qc \o "]" \o sh.sp \o "."
           \o sh.func \o sh.sp \o "()" \o sh.trail
      [] sh.kind = "column" ->
           sh.lead \o "df[" \o sh.qo \o sh.col \o sh.qc \o "]" \o sh.trail
      [] OTHER -> sh.raw

\* the inputs the concurrent callers of SpecCalls choose from
CallShapes ==
    { sh \in Shapes :
        /\ sh.lead = "" /\ sh.trail = "" /\ sh.sp = ""
        /\ sh.qo \in {"", "'"} /\ sh.qc = sh.qo
        /\ \/ sh.kind = "colagg" /\ sh.col = "salary" /\ sh.func = "std"
           \/ sh.kind = "groupby" /\ sh.col = "salary" /\ sh.func = "sum"
           \/ sh.kind = "chain" /\ sh.cond = "a" /\ sh.func = "std"
           \/ sh.kind = "sort" /\ sh.col = "salary" /\ sh.asc = "False"
           \/ sh.kind = "other" /\ sh.raw = "not_a_pattern(1,2,3)" }

Callers == 1..NumCallers

(***************************************************************************)
(* Calls of python_to_sql.  FUNC_MAP is the module-level dictionary; a     *)
(* caller is "idle", "called" (arguments bound) or "done" (returned).      *)
(***************************************************************************)
\* a caller binds the arguments of a new call
Call(c) ==
    /\ pc[c] \in {"idle", "done"}
    /\ \E sh \in CallShapes, t \in Tables :
         /\ shape' = [shape EXCEPT ![c] = sh]
         /\ python_code' = [python_code EXCEPT ![c] = Render(sh)]
         /\ table_name' = [table_name EXCEPT ![c] = t]
    /\ pc' = [pc EXCEPT ![c] = "called"]
    /\ result' = [result EXCEPT ![c] = None]
    /\ UNCHANGED <<FUNC_MAP, condition, cond_out>>

\* a variant of the dispatcher that remembers the upper-cased name of an
\* unknown function in FUNC_MAP
Return_Caching(c) ==
    /\ pc[c] = "called"
    /\ result' = [result EXCEPT ![c] =
                    python_to_sql(python_code[c], table_name[c], FUNC_MAP)]
    /\ pc' = [pc EXCEPT ![c] = "done"]
    /\ FUNC_MAP' = IF shape[c].func = "" \/ shape[c].func \in DOMAIN FUNC_MAP
                   THEN FUNC_MAP
                   ELSE FUNC_MAP @@ (shape[c].func :> upper(shape[c].func))
    /\ UNCHANGED <<python_code, table_name, shape, condition, cond_out>>

\* the body of python_to_sql runs and returns; it reads FUNC_MAP and writes
\* nothing but its result
Return(c) ==
    /\ pc[c] = "called"
    /\ result' = [result EXCEPT ![c] =
                    python_to_sql(python_code[c], table_name[c], FUNC_MAP)]
    /\ pc' = [pc EXCEPT ![c] = "done"]
    /\ UNCHANGED <<FUNC_MAP, python_code, table_name, shape, condition,
                   cond_out>>

\* _replace_series_refs runs on the condition and returns
Normalize ==
    /\ pc[1] = "normalizing"
    /\ cond_out' = _replace_series_refs(condition)
    /\ pc' = [pc EXCEPT ![1] = "normalized"]
    /\ UNCHANGED <<FUNC_MAP, python_code, table_name, result, shape,
                   condition>>

\* one call of python_to_sql, on any input and table
Init ==
    /\ FUNC_MAP = FuncMapInit
    /\ pc = <<"called">>
    /\ \E sh \in Shapes, t \in Tables :
         /\ shape = <<sh>>
         /\ python_code = <<Render(sh)>>
         /\ table_name = <<t>>
    /\ result = <<None>>
    /\ condition = ""
    /\ cond_out = None

Next == \E c \in DOMAIN pc : Return(c)

Spec == Init /\ [][Next]_vars

\* several callers, each making calls one after another
InitCalls ==
    /\ FUNC_MAP = FuncMapInit
    /\ pc = [c \in Callers |-> "idle"]
    /\ shape = [c \in Callers |-> Blank]
    /\ python_code = [c \in Callers |-> ""]
    /\ table_name = [c \in Callers |-> ""]
    /\ result = [c \in Callers |-> None]
    /\ condition = ""
    /\ cond_out = None

NextCalls == \E c \in Callers : Call(c) \/ Return(c)

SpecCalls == InitCalls /\ [][NextCalls]_vars

\* one call of _replace_series_refs, on any condition
InitNorm ==
    /\ FUNC_MAP = FuncMapInit
    /\ pc = <<"normalizing">>
    /\ shape = <<Blank>>
    /\ python_code = <<"">>
    /\ table_name = <<"">>
    /\ result = <<None>>
    /\ condition \in NormConds
    /\ cond_out = None

NextNorm == Normalize

SpecNorm == InitNorm /\ [][NextNorm]_vars

(***************************************************************************)
(* Properties                                                              *)
(***************************************************************************)
RECURSIVE Count(_, _)
\* number of occurrences of the character ch in s
Count(s, ch) ==
    IF s = "" THEN 0
    ELSE (IF At(s, 1) = ch THEN 1 ELSE 0) + Count(SubSeq(s, 2, Len(s)), ch)

Contains(s, sub) == \E i \in 1..Len(s) : StartsWithAt(s, i, sub)

StartsWith(s, prefix) == StartsWithAt(s, 1, prefix)

EndsWith(s, suffix) ==
    Len(s) >= Len(suffix) /\ StartsWithAt(s, Len(s) - Len(suffix) + 1, suffix)

IsIdentifier(s) == s # "" /\ \A i \in 1..Len(s) : At(s, i) \in Word

\* "[" minus "]" over the first i characters
Depth(s, i) == Count(SubSeq(s, 1, i), "[") - Count(SubSeq(s, 1, i), "]")

\* the square brackets of s do not pair up
Unbalanced(s) ==
    \/ Depth(s, Len(s)) # 0
    \/ \E i \in 1..Len(s) : Depth(s, i) < 0

Done(c) == pc[c] = "done"

OnlySpace(s) == \A i \in 1..Len(s) : At(s, i) \in Space

\* the input of caller c is written as the documentation writes its shape:
\* a literal opens and closes with the same quote, nothing follows but space
Plain(c) == shape[c].qo = shape[c].qc /\ OnlySpace(shape[c].trail)

\* C1: for every identifier C and table T, python_to_sql on df['C'] (single
\* or double quotes, optional trailing white space) returns
\* "SELECT C FROM T;".  The code gives the input to the filter recognizer.
C1_PlainColumnSelect ==
    \A c \in DOMAIN pc :
        Done(c) /\ shape[c].kind = "column" /\ Plain(c) /\ shape[c].lead = ""
        => result[c] = "SELECT " \o shape[c].col \o " FROM " \o table_name[c]
                       \o ";"

\* C2: every call returns either the sentinel or a string that starts with
\* "SELECT " and ends with ";", and the sentinel exactly when none of the six
\* recognizers matches the trimmed input.
C2_SentinelOrSelect ==
    \A c \in DOMAIN pc :
        Done(c) =>
          /\ \/ result[c] = ErrorMessage
             \/ StartsWith(result[c], "SELECT ") /\ EndsWith(result[c], ";")
          /\ result[c] = ErrorMessage <=> Recognizer(python_code[c]) = 0

C2_Witness ==
    \E c \in DOMAIN pc :
        /\ Done(c) /\ shape[c].kind = "other"
        /\ python_code[c] = "not_a_pattern(1,2,3)"
        /\ result[c] = ErrorMessage

\* C3 as stated: an input whose square brackets are unbalanced gets the
\* sentinel.
C3_UnbalancedIsError ==
    \A c \in DOMAIN pc :
        Done(c) /\ Unbalanced(python_code[c]) => result[c] = ErrorMessage

\* C3 amended: an input that contains no "]" at all and does not start, once
\* trimmed, with df.sort_values( gets the sentinel.
C3_NoClosingBracket ==
    \A c \in DOMAIN pc :
        /\ Done(c)
        /\ Count(python_code[c], "]") = 0
        /\ ~StartsWith(strip(python_code[c]), "df.sort_values(")
        => result[c] = ErrorMessage

C3_Witness ==
    \E c \in DOMAIN pc :
        /\ Done(c) /\ shape[c].kind = "filter" /\ shape[c].cond # ""
        /\ Count(python_code[c], "[") > 0
        /\ Count(python_code[c], "]") = 0
        /\ result[c] = ErrorMessage

\* C4 as stated: for a recognized input and a table name of identifier
\* characters, the output starts with "SELECT", ends with ";" and holds no
\* other ";".
C4_ExactlyOneSemicolon ==
    \A c \in DOMAIN pc :
        Done(c) /\ Recognizer(python_code[c]) # 0
        /\ IsIdentifier(table_name[c])
        => /\ StartsWith(result[c], "SELECT")
           /\ EndsWith(result[c], ";")
           /\ Count(result[c], ";") = 1

\* C4 amended: for a recognized input and a table name of identifier
\* characters, the output starts with "SELECT" and ends with ";", and it
\* holds no other ";" when the input itself holds none.
C4_OneSemicolonUnlessInInput ==
    \A c \in DOMAIN pc :
        Done(c) /\ Recognizer(python_code[c]) # 0
        /\ IsIdentifier(table_name[c])
        => /\ StartsWith(result[c], "SELECT")
           /\ EndsWith(result[c], ";")
           /\ Count(python_code[c], ";") = 0 => Count(result[c], ";") = 1

C4_Witness ==
    \E c \in DOMAIN pc :
        /\ Done(c) /\ shape[c].kind = "sort" /\ Plain(c)
        /\ Recognizer(python_code[c]) = 2
        /\ IsIdentifier(table_name[c])
        /\ Count(python_code[c], ";") = 0
        /\ Count(result[c], ";") = 1

\* what the chained recognizer is to return for an input of shape chain
ChainExpected(c) ==
    "SELECT " \o shape[c].sqlfunc \o "(" \o shape[c].col \o ") FROM "
    \o table_name[c] \o " WHERE " \o _replace_series_refs(shape[c].cond)
    \o ";"

\* C5 as stated: every input df[COND]['C'].func() with non-empty COND yields
\* "SELECT FUNC(C) FROM table WHERE <normalized COND>;" and never a
\* "SELECT * FROM ... WHERE" statement.
C5_ChainAlways ==
    \A c \in DOMAIN pc :
        Done(c) /\ shape[c].kind = "chain" /\ shape[c].trail = ""
        => /\ result[c] = ChainExpected(c)
           /\ ~StartsWith(result[c], "SELECT * FROM")

\* C5 amended: the same, for every COND that holds no newline character.
C5_ChainSingleLine ==
    \A c \in DOMAIN pc :
        Done(c) /\ shape[c].kind = "chain" /\ shape[c].trail = ""
        /\ Count(shape[c].cond, "\n") = 0
        => /\ result[c] = ChainExpected(c)
           /\ ~StartsWith(result[c], "SELECT * FROM")

C5_Witness ==
    \E c \in DOMAIN pc :
        /\ Done(c) /\ shape[c].kind = "chain" /\ shape[c].trail = ""
        /\ shape[c].cond = "df['age']]"
        /\ shape[c].func = "sum"
        /\ result[c] = "SELECT SUM(salary) FROM employees WHERE age];"

C7_AliasOrUpper ==
    \A c \in DOMAIN pc :
        Done(c) /\ Plain(c) =>
          /\ shape[c].kind = "groupby" =>
               result[c] = "SELECT " \o shape[c].gcol \o ", "
                           \o shape[c].sqlfunc \o "(" \o shape[c].col
                           \o ") FROM " \o table_name[c] \o " GROUP BY "
                           \o shape[c].gcol \o ";"
          /\ shape[c].kind = "colagg" =>
               result[c] = "SELECT " \o shape[c].sqlfunc \o "("
                           \o shape[c].col \o ") FROM " \o table_name[c]
                           \o ";"
          /\ shape[c].kind = "chain" /\ Count(shape[c].cond, "\n") = 0 =>
               StartsWith(result[c],
                          "SELECT " \o shape[c].sqlfunc \o "("
                          \o shape[c].col \o ") FROM " \o table_name[c]
                          \o " WHERE ")

C7_Witness ==
    \E c \in DOMAIN pc :
        /\ Done(c) /\ shape[c].kind = "colagg" /\ Plain(c)
        /\ shape[c].func = "std"
        /\ result[c] = "SELECT STD(salary) FROM employees;"

C9_CallsIndependent ==
    /\ FUNC_MAP = FuncMapInit
    /\ \A c \in DOMAIN pc :
         Done(c) => result[c] = python_to_sql(python_code[c], table_name[c],
                                              FuncMapInit)

C9_Witness ==
    /\ Cardinality(DOMAIN pc) >= 2
    /\ Done(1) /\ Done(2)
    /\ python_code[1] = "df['salary'].std()"
    /\ python_code[2] = "df.groupby('dept')['salary'].sum()"
    /\ result[1] = "SELECT STD(salary) FROM " \o table_name[1] \o ";"
    /\ table_name[1] # table_name[2]

Normalized == pc[1] = "normalized"

\* a series reference df['field'] or df["field"] starts somewhere in s
HasSeriesRef(s) ==
    \E i \in 1..Len(s) : MatchItems(s, i, SeriesRef, <<>>).ok

\* C10 as stated: the output of the normalizer holds no "==", "&", "|",
\* "df." or df['field'] any more, and normalizing it again changes nothing.
C10_NoRewritableLeft ==
    Normalized =>
      /\ ~Contains(cond_out, "==")
      /\ ~Contains(cond_out, "&")
      /\ ~Contains(cond_out, "|")
      /\ ~Contains(cond_out, "df.")
      /\ ~HasSeriesRef(cond_out)
      /\ _replace_series_refs(cond_out) = cond_out

\* C10 amended: the output of the normalizer holds no "&" and no "|".
C10_NoAmpersandNoBar ==
    Normalized => ~Contains(cond_out, "&") /\ ~Contains(cond_out, "|")

C10_Witness ==
    /\ Normalized
    /\ condition = "a&|"
    /\ cond_out = "aANDOR"

====
